---- MODULE Spec2Model ----
(***************************************************************************)
(* Model of OverviewReport (webapp/src/reports/OverviewReport.tsx): the    *)
(* refresh controller that issues one groupBy call and one histogramTime   *)
(* call per returned event type, merges the responses into the chart and   *)
(* counts the outstanding calls in the `loading` signal.                   *)
(*                                                                         *)
(* JavaScript runs the handlers on one thread: every action below is one   *)
(* task (a user event, or the promise reactions of one settled call).  A   *)
(* `.then(f).finally(g)` chain runs f and g in consecutive microtasks of   *)
(* the same task, so no other handler runs between them.                   *)
(***************************************************************************)
EXTENDS Integers, Sequences, FiniteSets, TLC

\* ----------------------------------------------------------------- bounds
MaxRefresh == 2     \* refresh() calls in one behaviour
MaxRows    == 3     \* rows in one groupBy response
MaxCalls   == 3     \* histogramTime calls issued in one behaviour
MaxPoints  == 1     \* buckets in one histogramTime response
MaxClicks  == 1     \* legend clicks in one behaviour
MaxToggles == 2     \* legend clicks in one behaviour of ClickSpec

\* ------------------------------------------------------------ input sets
EventTypes == {"alert", "dns", "stats"}     \* keys the server may return
TimeRanges == {"1h", "24h"}                 \* values of the TIME_RANGE signal

\* size: 100 in the groupBy request
GroupBySize == 100

\* hiddenTypes as constructed: anomaly, stats and netflow are hidden, every
\* other key is absent (reads as undefined)
DefaultHidden == {"anomaly", "stats", "netflow"}
RegistryKeys  == EventTypes \cup DefaultHidden
InitHiddenTypes ==
    [k \in RegistryKeys |-> IF k \in DefaultHidden THEN "true" ELSE "undefined"]

\* getInterval(parse_timerange(timeRange)): the bucket width of a range
getInterval(tr) == IF tr = "1h" THEN 60 ELSE 3600

\* the first bucket's timestamp the server returns for a range
RangeStart(tr) == IF tr = "1h" THEN 100000 ELSE 20000

\* the count the server returns for the j-th bucket of an event type
BucketCount(key, j) == (IF key = "alert" THEN 5 ELSE 1) + (j - 1)

Min(a, b) == IF a < b THEN a ELSE b

\* response.rows of groupBy: at most `size` rows, each key at most once
GroupByResponses ==
    { rows \in { <<>>, <<"alert">>, <<"stats", "alert">>,
                 <<"alert", "dns", "stats">> } :
        Len(rows) <= Min(MaxRows, GroupBySize) }

\* response.data of histogramTime for a request: n buckets aligned to the
\* request's time_range and interval
HistogramResponses(req) ==
    { [j \in 1..n |-> [time  |-> RangeStart(req.time_range) + (j - 1) * req.interval,
                       count |-> BucketCount(req.event_type, j)]] :
        n \in 0..MaxPoints }

\* --------------------------------------------------------------- state
VARIABLES
    loading,      \* the loading signal (line 16)
    histogram,    \* the Chart object: built, data.labels, data.datasets
    hiddenTypes,  \* registry: key -> "true" | "false" | "undefined"
    TIME_RANGE,   \* the TIME_RANGE signal (imported from ../Top)
    cycles,       \* one record per refresh() call: its closure and its calls
    issued,       \* history: histogramTime calls issued so far
    clicks,       \* history: legend clicks so far
    toggled       \* history: key -> what the last legend click on it did

vars == <<loading, histogram, hiddenTypes, TIME_RANGE, cycles, issued, clicks,
          toggled>>

\* `let histogram: any = undefined`
Undefined == [built |-> FALSE, labels |-> <<>>, datasets |-> <<>>]

\* buildChart: new Chart(ctx, config) with data {labels: [], datasets: []}
buildChart == [built |-> TRUE, labels |-> <<>>, datasets |-> <<>>]

\* initChart: destroy the previous chart if any, then buildChart
initChart == buildChart

\* the cycle of the most recent refresh()
Current == Len(cycles)

Init ==
    /\ loading = 0
    /\ histogram = Undefined
    /\ hiddenTypes = InitHiddenTypes
    /\ TIME_RANGE = "1h"
    /\ cycles = <<>>
    /\ issued = 0
    /\ clicks = 0
    /\ toggled = [k \in RegistryKeys |-> "none"]

\* ------------------------------------------------------------- closures
\* a call of this cycle has not settled: one of its handlers is still to run
Live(cy) ==
    \/ cy.groupBy = "pending"
    \/ \E i \in DOMAIN cy.calls : cy.calls[i].state = "pending"

\* the slot of a superseded cycle with no handler left to run: nothing
\* references its closure any more
Released ==
    [timeRange |-> "", interval |-> 0, groupBy |-> "released", labels |-> <<>>,
     calls |-> <<>>, loadingBefore |-> 0]

Release(cy) == IF Live(cy) THEN cy ELSE Released

\* ------------------------------------------------------------- refresh
\* lines 36-40: `return` leaves the arrow function handed to untrack, not
\* refresh(): the guard never aborts the refresh
GuardReturns(n) == FALSE

\* the closure of one refresh() call; loadingBefore is history: loading
\* when refresh() was called, kept until the groupBy call settles
NewCycle(tr, n) ==
    [timeRange |-> tr, interval |-> getInterval(tr), groupBy |-> "pending",
     labels |-> <<>>, calls |-> <<>>, loadingBefore |-> n]

\* refresh() rebuilding hiddenTypes with its defaults
RefreshResetsRegistry(tr) ==
    /\ Len(cycles) < MaxRefresh
    /\ ~GuardReturns(loading)
    /\ loading' = loading + 1
    /\ histogram' = initChart
    /\ hiddenTypes' = InitHiddenTypes
    /\ cycles' = Append([c \in DOMAIN cycles |-> Release(cycles[c])],
                        NewCycle(tr, loading))
    /\ UNCHANGED <<issued, clicks, toggled>>

\* refresh() building the chart only when there is none yet
RefreshKeepsChart(tr) ==
    /\ Len(cycles) < MaxRefresh
    /\ ~GuardReturns(loading)
    /\ loading' = loading + 1
    /\ histogram' = IF histogram.built THEN histogram ELSE initChart
    /\ cycles' = Append([c \in DOMAIN cycles |-> Release(cycles[c])],
                        NewCycle(tr, loading))
    /\ UNCHANGED <<hiddenTypes, issued, clicks, toggled>>

\* the synchronous part of refresh(), reading tr from TIME_RANGE()
Refresh(tr) ==
    /\ Len(cycles) < MaxRefresh
    /\ ~GuardReturns(loading)
    /\ loading' = loading + 1
    /\ histogram' = initChart
    /\ cycles' = Append([c \in DOMAIN cycles |-> Release(cycles[c])],
                        NewCycle(tr, loading))
    /\ UNCHANGED <<hiddenTypes, issued, clicks, toggled>>

\* createEffect(() => refresh()): the first run, once the component is mounted
Mount ==
    /\ ~histogram.built
    /\ Refresh(TIME_RANGE)
    /\ UNCHANGED TIME_RANGE

\* RefreshButton refresh={refresh}
RefreshButtonClick ==
    /\ histogram.built
    /\ Refresh(TIME_RANGE)
    /\ UNCHANGED TIME_RANGE

\* the effect tracks TIME_RANGE() (line 43): a change of the signal re-runs it
SetTimeRange(tr) ==
    /\ histogram.built
    /\ tr # TIME_RANGE
    /\ TIME_RANGE' = tr
    /\ Refresh(tr)

\* ------------------------------------------------------- groupBy settles
\* the request of one histogramTime call (lines 57-62); time_range is read
\* from TIME_RANGE() when the groupBy response is handled, interval is the
\* one computed when refresh() was called; seq is history: the call was the
\* seq-th of its cycle to settle
HistogramRequest(cy, key, now) ==
    [event_type |-> key, time_range |-> now, interval |-> cy.interval,
     state |-> "pending", seq |-> 0]

\* the loop walking response.rows from its last row to its first
IssueCallsReversed(cy, rows, now) ==
    [i \in 1..Len(rows) |-> HistogramRequest(cy, rows[Len(rows) + 1 - i], now)]

\* the loop over response.rows (lines 53-88): one pending call per row, in
\* response order
IssueCalls(cy, rows, now) ==
    [i \in 1..Len(rows) |-> HistogramRequest(cy, rows[i], now)]

\* a finally-handler that leaves loading alone
FinallySkipped(n) == n

\* `.finally(() => setLoading((n) => n - 1))` (lines 85-87 and 90-92)
Finally(n) == n - 1

\* the increment written after the loop instead of inside it
ThenLoadingOnce(n, rows) == n + (IF Len(rows) > 0 THEN 1 ELSE 0)

\* line 56, once per row: setLoading((n) => n + 1)
ThenLoading(n, rows) == n + Len(rows)

\* calls of a cycle that have settled
Settled(cy) == Cardinality({i \in DOMAIN cy.calls : cy.calls[i].state # "pending"})

\* a handler of cycle c has run and left the closure cy
Settle(c, cy) ==
    [cycles EXCEPT ![c] = IF c = Current THEN cy ELSE Release(cy)]

\* the decrement written at the top of the then-handler, before the loop
\* throws on a response without rows: here, the chain without its finally
GroupByResolveNoFinally(c, rows) ==
    /\ c \in 1..Len(cycles)
    /\ cycles[c].groupBy = "pending"
    /\ rows \in GroupByResponses
    /\ issued + Len(rows) <= MaxCalls
    /\ issued' = issued + Len(rows)
    /\ cycles' = Settle(c, [cycles[c] EXCEPT
                              !.groupBy = "resolved",
                              !.calls = IssueCalls(cycles[c], rows, TIME_RANGE),
                              !.loadingBefore = 0])
    /\ loading' = ThenLoading(loading, rows)
    /\ UNCHANGED <<histogram, hiddenTypes, TIME_RANGE, clicks, toggled>>

\* groupBy resolves: the then-handler adds 1 to loading per row and issues
\* the calls, then the finally-handler takes 1 off for the groupBy call
GroupByResolve(c, rows) ==
    /\ c \in 1..Len(cycles)
    /\ cycles[c].groupBy = "pending"
    /\ rows \in GroupByResponses
    /\ issued + Len(rows) <= MaxCalls
    /\ issued' = issued + Len(rows)
    /\ cycles' = Settle(c, [cycles[c] EXCEPT
                              !.groupBy = "resolved",
                              !.calls = IssueCalls(cycles[c], rows, TIME_RANGE),
                              !.loadingBefore = 0])
    /\ loading' = Finally(ThenLoading(loading, rows))
    /\ UNCHANGED <<histogram, hiddenTypes, TIME_RANGE, clicks, toggled>>

\* the decrement written in the then-handler instead of a finally-handler
GroupByRejectNoFinally(c) ==
    /\ c \in 1..Len(cycles)
    /\ cycles[c].groupBy = "pending"
    /\ cycles' = Settle(c, [cycles[c] EXCEPT !.groupBy = "rejected",
                                             !.loadingBefore = 0])
    /\ loading' = loading
    /\ UNCHANGED <<histogram, hiddenTypes, TIME_RANGE, issued, clicks, toggled>>

\* groupBy rejects: the then-handler is skipped, the finally-handler runs
GroupByReject(c) ==
    /\ c \in 1..Len(cycles)
    /\ cycles[c].groupBy = "pending"
    /\ cycles' = Settle(c, [cycles[c] EXCEPT !.groupBy = "rejected",
                                             !.loadingBefore = 0])
    /\ loading' = Finally(loading)
    /\ UNCHANGED <<histogram, hiddenTypes, TIME_RANGE, issued, clicks, toggled>>

\* ------------------------------------------------- histogramTime settles
Times(data)  == [j \in 1..Len(data) |-> data[j].time]
Values(data) == [j \in 1..Len(data) |-> data[j].count]

\* lines 64-67: the closure's labels after the handler
ThenLabels(labels, data) ==
    IF Len(labels) = 0 THEN Times(data) ELSE labels

\* the dataset without `label: e.key` (line 78)
DatasetUnlabelled(key, data, hidden, gen) ==
    [label |-> "", data |-> Values(data), hidden |-> hidden,
     metaHidden |-> "null", gen |-> gen]

\* lines 74-81: the dataset pushed for a response; gen is history (the
\* cycle whose handler pushed it), metaHidden the chart's own visibility
\* override, unset until hide() or show()
Dataset(key, data, hidden, gen) ==
    [label |-> key, data |-> Values(data), hidden |-> hidden,
     metaHidden |-> "null", gen |-> gen]

\* the handler with unshift in place of push (line 76)
HistogramThenPrepends(chart, labels, key, data, registry, gen) ==
    LET labels1 == ThenLabels(labels, data)
        chart1  == IF Len(labels) = 0
                   THEN [chart EXCEPT !.labels = labels1]
                   ELSE chart
    IN  IF Len(data) # Len(labels1)
        THEN chart1
        ELSE [chart1 EXCEPT !.datasets =
                 <<Dataset(key, data, registry[key], gen)>> \o @]

\* the handler without its length check (lines 71-73)
HistogramThenNoCheck(chart, labels, key, data, registry, gen) ==
    LET labels1 == ThenLabels(labels, data)
        chart1  == IF Len(labels) = 0
                   THEN [chart EXCEPT !.labels = labels1]
                   ELSE chart
    IN  [chart1 EXCEPT !.datasets =
            Append(@, Dataset(key, data, registry[key], gen))]

\* lines 64-83: the chart after the then-handler of a response; labels is
\* the closure's labels before the handler, and chart is whatever Chart the
\* variable `histogram` holds when the handler runs
HistogramThen(chart, labels, key, data, registry, gen) ==
    LET labels1 == ThenLabels(labels, data)
        chart1  == IF Len(labels) = 0
                   THEN [chart EXCEPT !.labels = labels1]
                   ELSE chart
    IN  IF Len(data) # Len(labels1)
        THEN chart1
        ELSE [chart1 EXCEPT !.datasets =
                 Append(@, Dataset(key, data, registry[key], gen))]

HistogramResolve(c, i, data) ==
    /\ c \in 1..Len(cycles)
    /\ i \in DOMAIN cycles[c].calls
    /\ cycles[c].calls[i].state = "pending"
    /\ data \in HistogramResponses(cycles[c].calls[i])
    /\ LET cy == cycles[c]
           call == cy.calls[i]
       IN  /\ histogram' = HistogramThen(histogram, cy.labels, call.event_type,
                                         data, hiddenTypes, c)
           /\ cycles' = Settle(c, [cy EXCEPT
                                     !.labels = ThenLabels(cy.labels, data),
                                     !.calls[i].state = "resolved",
                                     !.calls[i].seq = Settled(cy) + 1])
    /\ loading' = Finally(loading)
    /\ UNCHANGED <<hiddenTypes, TIME_RANGE, issued, clicks, toggled>>

\* the decrement written in the then-handler instead of a finally-handler
HistogramRejectNoFinally(c, i) ==
    /\ c \in 1..Len(cycles)
    /\ i \in DOMAIN cycles[c].calls
    /\ cycles[c].calls[i].state = "pending"
    /\ cycles' = Settle(c, [cycles[c] EXCEPT
                              !.calls[i].state = "rejected",
                              !.calls[i].seq = Settled(cycles[c]) + 1])
    /\ loading' = loading
    /\ UNCHANGED <<histogram, hiddenTypes, TIME_RANGE, issued, clicks, toggled>>

\* histogramTime rejects: the then-handler is skipped, the finally-handler runs
HistogramReject(c, i) ==
    /\ c \in 1..Len(cycles)
    /\ i \in DOMAIN cycles[c].calls
    /\ cycles[c].calls[i].state = "pending"
    /\ cycles' = Settle(c, [cycles[c] EXCEPT
                              !.calls[i].state = "rejected",
                              !.calls[i].seq = Settled(cycles[c]) + 1])
    /\ loading' = Finally(loading)
    /\ UNCHANGED <<histogram, hiddenTypes, TIME_RANGE, issued, clicks, toggled>>

\* ---------------------------------------------------------- legend click
\* Chart.isDatasetVisible(index): the chart's override if set, else the
\* dataset's own hidden flag (undefined reads as not hidden)
isDatasetVisible(d) ==
    IF d.metaHidden = "null" THEN d.hidden # "true" ELSE d.metaHidden = "false"

\* the handler without its writes to hiddenTypes (lines 124 and 128)
LegendClickForgets(index) ==
    /\ histogram.built
    /\ index \in DOMAIN histogram.datasets
    /\ LET d == histogram.datasets[index]
           eventType == d.label
       IN  IF isDatasetVisible(d)
           THEN /\ histogram' = [histogram EXCEPT !.datasets[index].metaHidden = "true"]
                /\ toggled' = [toggled EXCEPT ![eventType] = "hidden"]
           ELSE /\ histogram' = [histogram EXCEPT !.datasets[index].metaHidden = "false"]
                /\ toggled' = [toggled EXCEPT ![eventType] = "shown"]
    /\ clicks' = clicks + 1
    /\ UNCHANGED <<loading, hiddenTypes, TIME_RANGE, cycles, issued>>

\* lines 117-130: legendItem.text is the dataset's label
LegendClick(index) ==
    /\ histogram.built
    /\ index \in DOMAIN histogram.datasets
    /\ LET d == histogram.datasets[index]
           eventType == d.label
       IN  IF isDatasetVisible(d)
           THEN /\ histogram' = [histogram EXCEPT !.datasets[index].metaHidden = "true"]
                /\ hiddenTypes' = [hiddenTypes EXCEPT ![eventType] = "true"]
                /\ toggled' = [toggled EXCEPT ![eventType] = "hidden"]
           ELSE /\ histogram' = [histogram EXCEPT !.datasets[index].metaHidden = "false"]
                /\ hiddenTypes' = [hiddenTypes EXCEPT ![eventType] = "false"]
                /\ toggled' = [toggled EXCEPT ![eventType] = "shown"]
    /\ clicks' = clicks + 1
    /\ UNCHANGED <<loading, TIME_RANGE, cycles, issued>>

\* --------------------------------------------------------- specification
Cycles == 1..MaxRefresh
Rows   == 1..MaxRows

\* the responses the server may give to call i of cycle c
ResponsesTo(c, i) ==
    IF c \in DOMAIN cycles /\ i \in DOMAIN cycles[c].calls
    THEN HistogramResponses(cycles[c].calls[i])
    ELSE {}

\* the handlers of the network calls
SettleSome ==
    \/ \E c \in Cycles, rows \in GroupByResponses : GroupByResolve(c, rows)
    \/ \E c \in Cycles : GroupByReject(c)
    \/ \E c \in Cycles, i \in Rows : \E data \in ResponsesTo(c, i) :
          HistogramResolve(c, i, data)
    \/ \E c \in Cycles, i \in Rows : HistogramReject(c, i)

\* the triggers of refresh()
RefreshSome ==
    \/ Mount
    \/ RefreshButtonClick
    \/ \E tr \in TimeRanges : SetTimeRange(tr)

\* the user clicks a legend item, at most n times in one behaviour
LegendClickSome(n) ==
    /\ clicks < n
    /\ \E index \in 1..MaxCalls : LegendClick(index)

Next ==
    \/ RefreshSome
    \/ SettleSome
    \/ LegendClickSome(MaxClicks)

Spec == Init /\ [][Next]_vars

\* the refresh controller alone: LegendClick writes hiddenTypes, toggled,
\* clicks and a dataset's metaHidden, none of which a refresh or a network
\* handler reads except to copy hiddenTypes[key] into a new dataset
NetNext == RefreshSome \/ SettleSome

NetSpec == Init /\ [][NetNext]_vars

\* the whole component with a longer run of legend clicks
ClickNext ==
    \/ RefreshSome
    \/ SettleSome
    \/ LegendClickSome(MaxToggles)

ClickSpec == Init /\ [][ClickNext]_vars

\* every network call settles: a pending call is eventually resolved or rejected
FairSpec == NetSpec /\ WF_vars(SettleSome)

\* ----------------------------------------------------------------- claims
Pending(cy) == {i \in DOMAIN cy.calls : cy.calls[i].state = "pending"}

AllSettled == \A c \in DOMAIN cycles : ~Live(cycles[c])

LastDataset(chart) == chart.datasets[Len(chart.datasets)]

\* the datasets of a chart pushed by handlers of cycle c
DatasetsOf(chart, c) ==
    {k \in DOMAIN chart.datasets : chart.datasets[k].gen = c}

\* every refresh() after the first was triggered by a change of TIME_RANGE
\* while the cycle before it was still live: no re-entrant refresh took part
StartedByRangeChange ==
    \A c \in 2..Current :
        /\ cycles[c - 1] # Released
        /\ cycles[c].timeRange # cycles[c - 1].timeRange

\* C1: once the groupBy call of a cycle has resolved, and every call that is
\* issued settles (the fairness of FairSpec), loading returns to 0
C1_PendingCountTermination ==
    (\E c \in DOMAIN cycles : cycles[c].groupBy = "resolved") ~> (loading = 0)

\* C1 witness: a cycle whose groupBy resolved with two or more rows, one call
\* rejected and one resolved, all settled, and loading back at 0
C1_Witness ==
    /\ Current > 0
    /\ cycles[Current].groupBy = "resolved"
    /\ Len(cycles[Current].calls) >= 2
    /\ Pending(cycles[Current]) = {}
    /\ \E i, j \in DOMAIN cycles[Current].calls :
          /\ cycles[Current].calls[i].state = "rejected"
          /\ cycles[Current].calls[j].state = "resolved"
    /\ loading = 0

\* C2 as stated: loading is 0 exactly when every call of the current cycle
\* has settled (taken where every cycle was started by a range change)
C2_Original ==
    StartedByRangeChange =>
        ((loading = 0) <=> (Current = 0 \/ ~Live(cycles[Current])))

\* C2 as amended: loading is 0 exactly when every call of every cycle, the
\* current and the superseded ones, has settled; so it is not 0 between the
\* settling of a groupBy call and the settling of the last call it issued
C2_LoadingZeroIffAllSettled ==
    (loading = 0) <=> AllSettled

\* C2 witness: every call of the current cycle has settled, a call of the
\* superseded cycle has not, and loading is not 0
C2_Witness ==
    /\ Current = 2
    /\ cycles[2].groupBy = "resolved"
    /\ Len(cycles[2].calls) > 0
    /\ ~Live(cycles[2])
    /\ Live(cycles[1])
    /\ loading > 0

\* C3 as stated: a refresh triggered while loading > 0 for the current cycle
\* issues no call, leaves loading alone and does not reset the chart
C3_Claim ==
    [][(loading > 0 /\ Current > 0 /\ Live(cycles[Current]) /\ RefreshButtonClick)
          => UNCHANGED <<loading, histogram, cycles, issued>>]_vars

\* C4 as stated: every series of the chart has as many values as the chart
\* has labels
C4_Claim ==
    \A k \in DOMAIN histogram.datasets :
        Len(histogram.datasets[k].data) = Len(histogram.labels)

\* C5 as stated: the first response merged in a cycle sets the chart's labels
\* to its times, and once a response of the current cycle has been merged no
\* later handler changes the labels
C5_Claim ==
    [][\A c \in Cycles, i \in Rows : \A data \in ResponsesTo(c, i) :
          HistogramResolve(c, i, data) =>
             IF \E j \in DOMAIN cycles[Current].calls :
                   cycles[Current].calls[j].state = "resolved"
             THEN histogram'.labels = histogram.labels
             ELSE c = Current => histogram'.labels = Times(data)]_vars

\* C6 as stated: the response of a call of a superseded cycle changes neither
\* the labels nor the series of the chart
C6_Claim ==
    [][\A c \in Cycles, i \in Rows : \A data \in ResponsesTo(c, i) :
          (c < Current /\ HistogramResolve(c, i, data)) => histogram' = histogram]_vars

C8_HistogramFailure ==
    [][\A c \in Cycles, i \in Rows :
          HistogramReject(c, i) =>
             /\ histogram' = histogram
             /\ loading' = loading - 1
             /\ \A j \in Pending(cycles[c]) \ {i} :
                   /\ cycles'[c].calls[j] = cycles[c].calls[j]
                   /\ cycles'[c].labels = cycles[c].labels]_vars

\* C8 witness: in the current cycle a call was rejected first and a sibling
\* that settled after it was merged
C8_Witness ==
    /\ Current > 0
    /\ \E i, j \in DOMAIN cycles[Current].calls :
          /\ cycles[Current].calls[i].state = "rejected"
          /\ cycles[Current].calls[j].state = "resolved"
          /\ cycles[Current].calls[i].seq < cycles[Current].calls[j].seq
          /\ \E k \in DatasetsOf(histogram, Current) :
                histogram.datasets[k].label = cycles[Current].calls[j].event_type

\* C9 as stated: when the groupBy call of the current cycle rejects, no
\* histogramTime call is issued for it, the chart is empty, and loading is
\* back at the value it had when refresh() was called (taken where every
\* cycle was started by a range change and the chart is still as built)
C9_Original ==
    [][\A c \in Cycles :
          (/\ c = Current
           /\ StartedByRangeChange
           /\ histogram = buildChart
           /\ GroupByReject(c)) =>
             /\ issued' = issued
             /\ cycles'[c].calls = <<>>
             /\ histogram'.labels = <<>>
             /\ histogram'.datasets = <<>>
             /\ loading' = cycles[c].loadingBefore]_vars

\* C9 as amended: when the groupBy call of a cycle rejects, no histogramTime
\* call is issued for that cycle, then or later; the rejection leaves the
\* chart as it is, so the chart holds no series of that cycle; and exactly 1
\* is taken off loading
C9_DiscoveryFailure ==
    /\ [][\A c \in Cycles :
             GroupByReject(c) =>
                /\ issued' = issued
                /\ cycles'[c].calls = <<>>
                /\ histogram' = histogram
                /\ loading' = loading - 1]_vars
    /\ [](\A c \in DOMAIN cycles :
             cycles[c].groupBy = "rejected" =>
                /\ cycles[c].calls = <<>>
                /\ DatasetsOf(histogram, c) = {})

\* C9 witness: the groupBy call of the second cycle was rejected while the
\* chart holds a series merged from a response of the first cycle
C9_Witness ==
    /\ Current = 2
    /\ cycles[2].groupBy = "rejected"
    /\ DatasetsOf(histogram, 1) # {}
    /\ DatasetsOf(histogram, 2) = {}

\* C10: a response whose point count differs from the non-empty label count
\* its cycle has established is dropped: the chart (labels and series) stays
\* as it is, and so do the pending sibling calls and their closure's labels;
\* a response whose point count equals it is appended as the last series and
\* changes nothing else of the chart
C10_MismatchDropped ==
    [][\A c \in Cycles, i \in Rows : \A data \in ResponsesTo(c, i) :
          (HistogramResolve(c, i, data) /\ Len(cycles[c].labels) > 0) =>
             IF Len(data) # Len(cycles[c].labels)
             THEN /\ histogram' = histogram
                  /\ \A j \in Pending(cycles[c]) \ {i} :
                        /\ cycles'[c].calls[j] = cycles[c].calls[j]
                        /\ cycles'[c].labels = cycles[c].labels
             ELSE /\ histogram'.labels = histogram.labels
                  /\ Len(histogram'.datasets) = Len(histogram.datasets) + 1
                  /\ SubSeq(histogram'.datasets, 1, Len(histogram.datasets))
                        = histogram.datasets
                  /\ LastDataset(histogram').label = cycles[c].calls[i].event_type
                  /\ LastDataset(histogram').data = Values(data)]_vars

\* C10 witness: in the current cycle the first response fixed one label and
\* was merged, the second had no point and was dropped, the third was merged
C10_Witness ==
    /\ Current > 0
    /\ Len(histogram.labels) = 1
    /\ \E a, b, k \in DOMAIN cycles[Current].calls :
          LET calls == cycles[Current].calls
              Merged(x) == \E n \in DatasetsOf(histogram, Current) :
                              histogram.datasets[n].label = calls[x].event_type
          IN  /\ calls[a].state = "resolved" /\ calls[a].seq = 1 /\ Merged(a)
              /\ calls[b].state = "resolved" /\ calls[b].seq = 2 /\ ~Merged(b)
              /\ calls[k].state = "resolved" /\ calls[k].seq = 3 /\ Merged(k)

\* the call of a cycle made for a key (a groupBy response lists a key once)
CallOf(cy, key) ==
    CHOOSE i \in DOMAIN cy.calls : cy.calls[i].event_type = key

\* C11 as stated: every histogramTime call of a cycle carries the time range
\* refresh() captured for that cycle's groupBy call
C11_Claim ==
    \A c \in DOMAIN cycles : \A i \in DOMAIN cycles[c].calls :
        cycles[c].calls[i].time_range = cycles[c].timeRange

\* C12: the series of one cycle stand in the chart in the order in which
\* their histogramTime calls resolved, whatever the order of the groupBy rows
C12_SettleOrder ==
    \A c \in DOMAIN cycles :
        cycles[c].groupBy = "resolved" =>
            \A k1, k2 \in DatasetsOf(histogram, c) :
                k1 < k2 =>
                    cycles[c].calls[CallOf(cycles[c], histogram.datasets[k1].label)].seq
                  < cycles[c].calls[CallOf(cycles[c], histogram.datasets[k2].label)].seq

\* C12 witness: groupBy returned [stats, alert], alert resolved first, and
\* the chart holds [alert, stats]
C12_Witness ==
    /\ Current > 0
    /\ Len(cycles[Current].calls) = 2
    /\ cycles[Current].calls[1].event_type = "stats"
    /\ cycles[Current].calls[2].event_type = "alert"
    /\ cycles[Current].calls[2].seq = 1
    /\ cycles[Current].calls[1].seq = 2
    /\ Len(histogram.datasets) = 2
    /\ DatasetsOf(histogram, Current) = {1, 2}
    /\ histogram.datasets[1].label = "alert"
    /\ histogram.datasets[2].label = "stats"

\* C13 as stated: the series of the current cycle stand in the chart in the
\* order of the groupBy rows
C13_Original ==
    \A k1, k2 \in DatasetsOf(histogram, Current) :
        k1 < k2 =>
            CallOf(cycles[Current], histogram.datasets[k1].label)
          < CallOf(cycles[Current], histogram.datasets[k2].label)

\* C13 as amended: a series of a cycle carries the key of one resolved call
\* of that cycle, each key at most once per cycle, and two series of a cycle
\* stand in groupBy-row order exactly when their calls resolved in that order
C13_RowOrderWhenSettledInRowOrder ==
    \A c \in DOMAIN cycles :
        cycles[c].groupBy = "resolved" =>
            LET cy == cycles[c]
                ds == DatasetsOf(histogram, c)
                key(k) == histogram.datasets[k].label
            IN  /\ \A k \in ds : \E i \in DOMAIN cy.calls :
                      /\ cy.calls[i].event_type = key(k)
                      /\ cy.calls[i].state = "resolved"
                /\ \A k1, k2 \in ds : k1 # k2 => key(k1) # key(k2)
                /\ \A k1, k2 \in ds :
                      k1 < k2 =>
                         LET i1 == CallOf(cy, key(k1))
                             i2 == CallOf(cy, key(k2))
                         IN  (i1 < i2) <=>
                                ((cy.calls[i1].seq < cy.calls[i2].seq) <=> (i1 < i2))

\* C13 witness: groupBy returned [alert, dns, stats], the calls resolved in
\* the order stats, alert, dns, and the chart holds [stats, alert, dns]
C13_Witness ==
    /\ Current > 0
    /\ Len(cycles[Current].calls) = 3
    /\ cycles[Current].calls[1].event_type = "alert"
    /\ cycles[Current].calls[2].event_type = "dns"
    /\ DatasetsOf(histogram, Current) = {1, 2, 3}
    /\ histogram.datasets[1].label = "stats"
    /\ histogram.datasets[2].label = "alert"
    /\ histogram.datasets[3].label = "dns"

\* what hiddenTypes holds for a key if nothing but legend clicks wrote it: the
\* value the last click on the key wrote, or the constructed value if the key
\* was never clicked
RegistryByClicks(k) ==
    CASE toggled[k] = "hidden" -> "true"
      [] toggled[k] = "shown"  -> "false"
      [] OTHER                 -> InitHiddenTypes[k]

\* C14: hiddenTypes changes only in a legend click: whatever refreshes were
\* started and whatever calls settled (resolved, rejected or dropped for
\* their length), every entry holds what the last legend click on its key
\* wrote, or its constructed value if there was none, and no entry is lost
C14_RegistryFrame ==
    /\ DOMAIN hiddenTypes = RegistryKeys
    /\ \A k \in RegistryKeys : hiddenTypes[k] = RegistryByClicks(k)

\* C14 witness: alert was hidden by a click in the first cycle; after a second
\* refresh whose calls have all settled, one rejected and one resolved, the
\* registry is the constructed one with alert set to hidden
C14_Witness ==
    /\ Current = 2
    /\ hiddenTypes = [InitHiddenTypes EXCEPT !["alert"] = "true"]
    /\ \A k \in DOMAIN histogram.datasets : histogram.datasets[k].metaHidden = "null"
    /\ cycles[2].groupBy = "resolved"
    /\ Pending(cycles[2]) = {}
    /\ \E i, j \in DOMAIN cycles[2].calls :
          /\ cycles[2].calls[i].state = "rejected"
          /\ cycles[2].calls[j].state = "resolved"

\* C15 as stated: a legend click flips the visibility of the clicked series
\* and the registry entry of its key, and leaves the other series, the other
\* entries, the labels, loading and the outstanding calls as they are (taken
\* where every cycle was started by a range change)
C15_Claim ==
    [][\A index \in 1..MaxCalls :
          (StartedByRangeChange /\ LegendClick(index)) =>
             LET d   == histogram.datasets[index]
                 key == d.label
             IN  /\ isDatasetVisible(histogram'.datasets[index]) # isDatasetVisible(d)
                 /\ (hiddenTypes'[key] = "true") # (hiddenTypes[key] = "true")
                 /\ \A k \in DOMAIN histogram.datasets \ {index} :
                       histogram'.datasets[k] = histogram.datasets[k]
                 /\ \A k \in DOMAIN hiddenTypes \ {key} :
                       hiddenTypes'[k] = hiddenTypes[k]
                 /\ histogram'.labels = histogram.labels
                 /\ UNCHANGED <<loading, cycles, issued>>]_vars

\* C16: histogramTime calls are issued only by the then-handler of a groupBy
\* call that was pending and resolves, one per row in row order, all pending;
\* a cycle whose groupBy call is pending or rejected has no call
C16_DiscoveryBeforeHistogram ==
    /\ [][\A c \in Cycles, rows \in GroupByResponses :
             GroupByResolve(c, rows) =>
                /\ cycles[c].groupBy = "pending"
                /\ cycles[c].calls = <<>>
                /\ issued' = issued + Len(rows)
                /\ rows # <<>> =>
                      /\ Len(cycles'[c].calls) = Len(rows)
                      /\ \A i \in DOMAIN rows :
                            /\ cycles'[c].calls[i].event_type = rows[i]
                            /\ cycles'[c].calls[i].state = "pending"]_vars
    /\ [][issued' # issued =>
             \E c \in Cycles, rows \in GroupByResponses : GroupByResolve(c, rows)]_vars
    /\ [](\A c \in DOMAIN cycles :
             cycles[c].groupBy \in {"pending", "rejected"} => cycles[c].calls = <<>>)

\* C16 witness: the groupBy call resolved with [alert, dns, stats] and the
\* three calls are outstanding in that order
C16_Witness ==
    /\ Current > 0
    /\ cycles[Current].groupBy = "resolved"
    /\ issued = 3
    /\ [i \in DOMAIN cycles[Current].calls |-> cycles[Current].calls[i].event_type]
          = <<"alert", "dns", "stats">>
    /\ Pending(cycles[Current]) = {1, 2, 3}

\* C17: a change of TIME_RANGE always starts a cycle: the chart is rebuilt
\* empty, a groupBy call for the new range is pending and counted in
\* loading, whatever is outstanding and whatever loading is
C17_RangeChangeStartsCycle ==
    [][\A tr \in TimeRanges :
          SetTimeRange(tr) =>
             /\ histogram' = buildChart
             /\ Len(cycles') = Len(cycles) + 1
             /\ cycles'[Len(cycles')] = NewCycle(tr, loading)
             /\ loading' = loading + 1
             /\ issued' = issued]_vars

\* C17 witness: the range was changed while a histogramTime call of the first
\* cycle was outstanding and the chart held a series: the second cycle's
\* groupBy call is pending for the new range and the chart is empty
C17_Witness ==
    /\ Current = 2
    /\ cycles[2].timeRange = "24h"
    /\ cycles[2].groupBy = "pending"
    /\ cycles[2].loadingBefore >= 2
    /\ Pending(cycles[1]) # {}
    /\ \E i \in DOMAIN cycles[1].calls : cycles[1].calls[i].state = "resolved"
    /\ histogram = buildChart

\* the calls issued and not settled, over all cycles: groupBy calls and
\* histogramTime calls
Outstanding ==
    Cardinality({c \in DOMAIN cycles : cycles[c].groupBy = "pending"})
  + Cardinality({p \in (DOMAIN cycles) \X Rows :
                    /\ p[2] \in DOMAIN cycles[p[1]].calls
                    /\ cycles[p[1]].calls[p[2]].state = "pending"})

\* C18: loading is never negative and is the number of calls, groupBy and
\* histogramTime over all cycles, that were issued and have not settled
C18_LoadingCountsOutstanding ==
    /\ loading >= 0
    /\ loading = Outstanding

\* C18 witness: two histogramTime calls of a superseded cycle and the groupBy
\* call of the current cycle are outstanding, a third call of the superseded
\* cycle has settled, and loading is 3
C18_Witness ==
    /\ Current = 2
    /\ cycles[2].groupBy = "pending"
    /\ Cardinality(Pending(cycles[1])) = 2
    /\ Len(cycles[1].calls) = 3
    /\ loading = 3

\* C19 as stated: every series of the chart is rendered hidden exactly when
\* the registry holds hidden for its label (taken where every cycle was
\* started by a range change)
C19_Claim ==
    StartedByRangeChange =>
        \A k \in DOMAIN histogram.datasets :
            (~isDatasetVisible(histogram.datasets[k]))
                <=> (hiddenTypes[histogram.datasets[k].label] = "true")

\* C20 as stated: no two series of the chart carry the same label (taken
\* where every cycle was started by a range change)
C20_Claim ==
    StartedByRangeChange =>
        \A k1, k2 \in DOMAIN histogram.datasets :
            k1 # k2 => histogram.datasets[k1].label # histogram.datasets[k2].label

====
